---- MODULE Spec2Model ----
(***************************************************************************)
(* Model of `jx upgrade boot` (pkg/cmd/upgrade/upgrade_boot.go).           *)
(*                                                                         *)
(* UpgradeBootOptions.Run is a strictly sequential chain of steps with     *)
(* early returns.  The model follows it call by call: pc names the step   *)
(* that runs next, err is the error Run returns ("" while none), and       *)
(* calls is the log of collaborator calls (git service, version resolver,  *)
(* requirements persistence, code-hosting provider) in the order they are  *)
(* made.  What a collaborator returns (an error, a commit, a version) is   *)
(* an input, drawn from small sets.                                        *)
(***************************************************************************)
EXTENDS Integers, Sequences, FiniteSets, TLC

(***************************************************************************)
(* Bounds.                                                                 *)
(***************************************************************************)
\* number of commits between the two boot config revisions in a plain run
\* (no flag overrides, complete requirements file, OWNERS edited or not)
MaxCommits == 3
\* number of commits between the two revisions in every other run (OWNERS
\* edited)
ShortHistory == 1

(***************************************************************************)
(* Values.                                                                 *)
(***************************************************************************)
DefaultVersionsURL == "DefaultVersionsURL"
DefaultCloudBeesVersionsURL == "DefaultCloudBeesVersionsURL"
OtherVersionsURL == "https://github.com/my-version-stream.git"
DefaultBootRepository == "DefaultBootRepository"
DefaultCloudBeesBootRepository == "DefaultCloudBeesBootRepository"
DefaultVersionsRef == "DefaultVersionsRef"
DefaultCloudBeesVersionsRef == "DefaultCloudBeesVersionsRef"
CloudBeesProfile == "cloudbees"

\* commits of the version stream repository
Shas == {"s0", "s1"}
\* the candidate symbol Run passes to upgradeAvailable
UpgradeRef == "master"
\* a tag of the version stream repository
StreamTag == "v1"
\* version labels the version resolver returns for the boot config
Versions == {"1.0", "2.0"}
\* commits of the boot config repository that carry a version tag
ConfigShas == {"C0", "C1"}
\* the branch checkoutNewBranch creates (a fresh UUID)
WorkingBranch == "uuid"
Master == "master"
\* the directory CloneJXVersionsRepo clones the version stream into, and the
\* one cloneBootConfig clones the boot config into
VersionsDir == "versionsDir"
ConfigCloneDir == "configCloneDir"

CommitNames == <<"c1", "c2", "c3", "c4", "c5">>
\* commits of the boot config repository between two tagged revisions
Commits == {CommitNames[n] : n \in 1..MaxCommits}

\* content of OWNERS in the boot config repository at a tagged revision
OwnersAt(sha) == IF sha = "C0" THEN "u0" ELSE "u1"
\* what cherry-picking a commit with strategy "theirs" does to OWNERS:
\* commit c1 rewrites it, the other commits leave it alone
OwnersAfterPick(sha, content) == IF sha = "c1" THEN "u2" ELSE content

Range(s) == {s[k] : k \in 1..Len(s)}
Distinct(s) == \A a, b \in 1..Len(s) : a # b => s[a] # s[b]
\* the commit ranges made of the first n commits, in any order
Histories(n) ==
    {h \in UNION {[1..k -> {CommitNames[m] : m \in 1..n}] : k \in 0..n} :
        Distinct(h)}

\* a collaborator call: the function of upgrade_boot.go that makes it, the
\* collaborator's operation, its argument, and the error it returned
Call(by, op, arg) == [by |-> by, op |-> op, arg |-> arg, ret |-> ""]
Returning(call, text) == [call EXCEPT !.ret = text]
\* the first k calls of ops, the last of them returning an error
FailAt(ops, k) ==
    [j \in 1..k |-> IF j = k THEN Returning(ops[j], "error") ELSE ops[j]]
\* the first k + 1 calls of ops when the error of call k is overwritten by
\* the result of call k + 1, which fails for want of what call k returns
FailOverwritten(ops, k) ==
    [j \in 1..(k + 1) |-> IF j >= k THEN Returning(ops[j], "error") ELSE ops[j]]

VARIABLES
    \* UpgradeBootOptions fields
    VersionStreamURL, VersionStreamRef, GitURL, Dir,
    \* the requirements file of the GitOps repository
    requirements,
    \* the world: what "master" of the version stream resolves to, the
    \* commit range of the boot config (newest first), and the GitOps
    \* repository before the run: its requirements file and its OWNERS
    masterSha, history, preRequirements, preOwners,
    \* which invocation of the command this is: the first, or a second one
    \* on the repository the first one left
    run,
    \* locals of Run and of the functions it calls
    reqsVersionStream, upgradeVersionSha, localBranch, bootConfigURL,
    currentSha, upgradeSha, cmts, i,
    \* the GitOps clone: git identity, branches, checked-out branch, commits
    \* made by this run, OWNERS in the work tree and at HEAD
    identity, branches, head, commits, owners, headOwners,
    \* the pull request raised, or NoPR
    pr,
    \* the temporary clone directories that exist
    tmpDirs,
    \* control: next step, error returned by Run, collaborator call log
    pc, err, calls

optsV == <<VersionStreamURL, VersionStreamRef, GitURL>>
worldV == <<masterSha, history, preRequirements, preOwners, run>>
localsV == <<reqsVersionStream, upgradeVersionSha, localBranch, bootConfigURL,
             currentSha, upgradeSha>>
loopV == <<cmts, i>>
repoV == <<branches, head, commits, owners, headOwners>>
vars == <<optsV, Dir, requirements, worldV, localsV, loopV, identity, repoV,
          pr, tmpDirs, pc, err, calls>>

NoPR == [BranchName |-> "", Title |-> "", Base |-> "", commits |-> <<>>]
NoStream == [URL |-> "", Ref |-> ""]

(***************************************************************************)
(* Inputs.                                                                 *)
(***************************************************************************)
StoredRequirements ==
    {[exists |-> TRUE, VersionStream |-> [URL |-> u, Ref |-> r], Cluster |-> "project"] :
        u \in {"", DefaultVersionsURL},
        r \in {"", "s0", "s1", StreamTag}}
    \cup {[exists |-> TRUE,
           VersionStream |-> [URL |-> DefaultCloudBeesVersionsURL, Ref |-> "s0"],
           Cluster |-> "project"]}
    \cup {[exists |-> FALSE, VersionStream |-> NoStream, Cluster |-> ""]}

\* a run without flag overrides on a complete requirements file
PlainRun(fu, fr, g, d, req) ==
    /\ fu = "" /\ fr = "" /\ g = "" /\ d = "dir"
    /\ req.exists
    /\ req.VersionStream.URL = DefaultVersionsURL
    /\ req.VersionStream.Ref \in Shas

Init ==
    /\ VersionStreamURL \in {"", OtherVersionsURL}
    /\ VersionStreamRef \in {"", "s0"}
    /\ GitURL \in {"", "https://github.com/my-boot-config.git"}
    /\ Dir \in {"", "dir"}
    /\ requirements \in StoredRequirements
    /\ preRequirements = requirements
    /\ masterSha \in Shas
    /\ run = 1
    /\ IF PlainRun(VersionStreamURL, VersionStreamRef, GitURL, Dir, requirements)
       THEN /\ history \in Histories(MaxCommits)
            /\ preOwners \in {"u0", "mine"}
       ELSE /\ history \in Histories(ShortHistory)
            /\ preOwners = "mine"
    /\ reqsVersionStream = NoStream
    /\ upgradeVersionSha = ""
    /\ localBranch = ""
    /\ bootConfigURL = ""
    /\ currentSha = ""
    /\ upgradeSha = ""
    /\ cmts = <<>>
    /\ i = 0
    /\ identity = {}
    /\ branches = {Master}
    /\ head = Master
    /\ commits = <<>>
    /\ owners = preOwners
    /\ headOwners = preOwners
    /\ pr = NoPR
    /\ tmpDirs = {}
    /\ pc = "setupGitConfig"
    /\ err = ""
    /\ calls = <<>>

(***************************************************************************)
(* Run, lines 69-125: the order of the steps and the message each step's   *)
(* error is wrapped in.                                                    *)
(***************************************************************************)
\* a Run that raises the pull request before it updates the pinned reference
RunStepsPullRequestFirst ==
    <<"setupGitConfig", "cloneDevEnv", "determineVersionStreamConfig",
      "upgradeAvailable", "checkoutNewBranch", "determineBootConfigURL",
      "updateBootConfig", "raisePR", "updateVersionStreamRef",
      "deleteLocalBranch">>

\* a Run that returns once the pull request is raised
RunStepsWithoutCleanup ==
    <<"setupGitConfig", "cloneDevEnv", "determineVersionStreamConfig",
      "upgradeAvailable", "checkoutNewBranch", "determineBootConfigURL",
      "updateBootConfig", "updateVersionStreamRef", "raisePR">>

RunSteps ==
    <<"setupGitConfig", "cloneDevEnv", "determineVersionStreamConfig",
      "upgradeAvailable", "checkoutNewBranch", "determineBootConfigURL",
      "updateBootConfig", "updateVersionStreamRef", "raisePR",
      "deleteLocalBranch">>

StepIndex(step) == CHOOSE k \in 1..Len(RunSteps) : RunSteps[k] = step

\* the step Run makes after step, "done" after the last one
StepAfter(step) ==
    IF StepIndex(step) = Len(RunSteps) THEN "done"
    ELSE RunSteps[StepIndex(step) + 1]

Wrapped(step) ==
    CASE step = "setupGitConfig" -> "failed to setup git config"
      [] step = "cloneDevEnv" -> "failed to clone dev environment repo"
      [] step = "determineVersionStreamConfig" ->
            "failed to get requirements version stream"
      [] step = "upgradeAvailable" -> "failed to get check for available update"
      [] step = "checkoutNewBranch" -> "failed to checkout upgrade_branch"
      [] step = "determineBootConfigURL" ->
            "failed to determine boot configuration URL"
      [] step = "updateBootConfig" -> "failed to update boot configuration"
      [] step = "updateVersionStreamRef" -> "failed to update version stream ref"
      [] step = "raisePR" -> "failed to raise pr"
      [] step = "deleteLocalBranch" -> "failed to delete local branch"

\* a Run that deletes the working branch whenever it returns an error
ReturnAfterCleanup(step, made) ==
    /\ pc' = "done"
    /\ err' = Wrapped(step)
    /\ calls' = calls \o made
                 \o <<Call("deleteLocalBranch", "DeleteLocalBranch", localBranch)>>

\* Run returns the error of step, wrapped; made so far: the calls in made
Return(step, made) ==
    /\ pc' = "done"
    /\ err' = Wrapped(step)
    /\ calls' = calls \o made

\* the step succeeded after the calls in made; next runs the step next
Goto(next, made) ==
    /\ pc' = next
    /\ err' = ""
    /\ calls' = calls \o made


(***************************************************************************)
(* setupGitConfig, lines 350-368.  The error of JXClientAndDevNamespace is *)
(* overwritten by the result of GetDevEnvironment (lines 351-352), which   *)
(* is called without a client and fails.                                   *)
(***************************************************************************)
SetupGitConfig ==
    /\ pc = "setupGitConfig"
    /\ LET ops == <<Call("setupGitConfig", "JXClientAndDevNamespace", ""),
                    Call("setupGitConfig", "GetDevEnvironment", ""),
                    Call("setupGitConfig", "SetUsername", Dir),
                    Call("setupGitConfig", "SetEmail", Dir)>>
       IN \/ /\ Return("setupGitConfig", FailOverwritten(ops, 1))
             /\ identity' = {}
          \/ \E k \in 2..4 :
                /\ Return("setupGitConfig", FailAt(ops, k))
                /\ identity' = IF k = 4 THEN {"username"} ELSE {}
          \/ /\ Goto(IF Dir = "" THEN StepAfter("setupGitConfig")
                     ELSE StepAfter("cloneDevEnv"), ops)
             /\ identity' = {"username", "email"}
    /\ UNCHANGED <<tmpDirs, optsV, Dir, requirements, worldV, localsV, loopV, repoV, pr>>

(***************************************************************************)
(* cloneDevEnv, lines 429-461: runs only when no directory was given.  The *)
(* error of JXClientAndDevNamespace is overwritten as in setupGitConfig.   *)
(***************************************************************************)
CloneDevEnv ==
    /\ pc = "cloneDevEnv"
    /\ LET ops == <<Call("cloneDevEnv", "JXClientAndDevNamespace", ""),
                    Call("cloneDevEnv", "GetDevEnvironment", ""),
                    Call("cloneDevEnv", "TempDir", ""),
                    Call("cloneDevEnv", "MkdirAll", "clone"),
                    Call("cloneDevEnv", "pipelineUserAuth", ""),
                    Call("cloneDevEnv", "CreateAuthenticatedURL", ""),
                    Call("cloneDevEnv", "Clone", "clone")>>
       IN \/ /\ Return("cloneDevEnv", FailOverwritten(ops, 1))
             /\ Dir' = Dir
          \/ \E k \in 2..7 :
                /\ Return("cloneDevEnv", FailAt(ops, k))
                /\ Dir' = Dir
          \/ /\ Goto(StepAfter("cloneDevEnv"), ops)
             /\ Dir' = "clone"
    /\ UNCHANGED <<tmpDirs, optsV, requirements, worldV, localsV, loopV, identity, repoV, pr>>

(***************************************************************************)
(* determineVersionStreamConfig, lines 146-165, with                       *)
(* defaultVersionStreamConfig, lines 167-177.                              *)
(***************************************************************************)
defaultVersionStreamConfig(profile) ==
    IF profile = CloudBeesProfile
    THEN [URL |-> DefaultVersionsURL, Ref |-> DefaultCloudBeesVersionsRef]
    ELSE [URL |-> DefaultVersionsURL, Ref |-> DefaultVersionsRef]

\* line 149: the requirements file is read only when neither flag is given
ReadsRequirements(flagURL, flagRef) == flagURL = "" /\ flagRef = ""

\* a determineVersionStreamConfig without lines 160-163
determineVersionStreamConfigAsObtained(flagURL, flagRef, stored, profile) ==
    IF ReadsRequirements(flagURL, flagRef)
    THEN stored
    ELSE [URL |-> flagURL, Ref |-> flagRef]

determineVersionStreamConfig(flagURL, flagRef, stored, profile) ==
    LET versionStreamConfig ==
            IF ReadsRequirements(flagURL, flagRef)
            THEN stored
            ELSE [URL |-> flagURL, Ref |-> flagRef]
    IN IF versionStreamConfig.URL = "" \/ versionStreamConfig.Ref = ""
       THEN defaultVersionStreamConfig(profile)
       ELSE versionStreamConfig

\* loadRequirementsConfig, lines 179-192: the collaborator calls it makes
LoadOps(by) ==
    <<Call(by, "LoadRequirementsConfig", Dir), Call(by, "FileExists", Dir)>>

DetermineVersionStreamConfig ==
    /\ pc = "determineVersionStreamConfig"
    /\ \/ /\ ReadsRequirements(VersionStreamURL, VersionStreamRef)
          /\ \E k \in 1..2 :
                Return("determineVersionStreamConfig",
                       FailAt(LoadOps("determineVersionStreamConfig"), k))
          /\ UNCHANGED reqsVersionStream
       \/ /\ ReadsRequirements(VersionStreamURL, VersionStreamRef)
          /\ ~requirements.exists
          /\ Return("determineVersionStreamConfig",
                 LoadOps("determineVersionStreamConfig"))
          /\ UNCHANGED reqsVersionStream
       \/ /\ ReadsRequirements(VersionStreamURL, VersionStreamRef) => requirements.exists
          /\ \E profile \in {"", CloudBeesProfile} :
                reqsVersionStream' =
                    determineVersionStreamConfig(VersionStreamURL, VersionStreamRef,
                                                 requirements.VersionStream, profile)
          /\ Goto(StepAfter("determineVersionStreamConfig"),
                  IF ReadsRequirements(VersionStreamURL, VersionStreamRef)
                  THEN LoadOps("determineVersionStreamConfig") ELSE <<>>)
    /\ UNCHANGED <<tmpDirs, optsV, Dir, requirements, worldV, upgradeVersionSha, localBranch,
                   bootConfigURL, currentSha, upgradeSha, loopV, identity, repoV, pr>>

(***************************************************************************)
(* upgradeAvailable, lines 194-210.                                        *)
(***************************************************************************)
\* what a reference of the version stream repository resolves to
ResolveRef(ref) ==
    IF ref = UpgradeRef THEN masterSha
    ELSE IF ref = StreamTag THEN "s1"
    ELSE ref

\* an availability check that reports every candidate as an upgrade
upgradeAlwaysAvailable(versionStreamRef, sha) == sha

upgradeAvailableByName(versionStreamRef, sha) ==
    IF versionStreamRef = UpgradeRef THEN "" ELSE sha

\* lines 204-209: the result, given the commit the candidate resolved to
upgradeAvailable(versionStreamRef, sha) ==
    IF versionStreamRef = sha THEN "" ELSE sha

UpgradeAvailable ==
    /\ pc = "upgradeAvailable"
    /\ LET ops == <<Call("upgradeAvailable", "CloneJXVersionsRepo", reqsVersionStream.URL),
                    Call("upgradeAvailable", "GetCommitPointedToByTag", UpgradeRef)>>
           sha == upgradeAvailable(reqsVersionStream.Ref, ResolveRef(UpgradeRef))
       IN \/ /\ Return("upgradeAvailable", FailAt(ops, 1))
             /\ UNCHANGED <<upgradeVersionSha, tmpDirs>>
          \/ /\ Return("upgradeAvailable", FailAt(ops, 2))
             /\ tmpDirs' = tmpDirs \cup {VersionsDir}
             /\ UNCHANGED upgradeVersionSha
          \/ /\ upgradeVersionSha' = sha
             /\ tmpDirs' = tmpDirs \cup {VersionsDir}
             /\ Goto(IF sha = "" THEN "done" ELSE StepAfter("upgradeAvailable"), ops)
    /\ UNCHANGED <<optsV, Dir, requirements, worldV, reqsVersionStream, localBranch,
                   bootConfigURL, currentSha, upgradeSha, loopV, identity, repoV, pr>>

(***************************************************************************)
(* checkoutNewBranch, lines 212-227.                                       *)
(***************************************************************************)
CheckoutNewBranch ==
    /\ pc = "checkoutNewBranch"
    /\ LET ops == <<Call("checkoutNewBranch", "NewV4", ""),
                    Call("checkoutNewBranch", "CreateBranch", WorkingBranch),
                    Call("checkoutNewBranch", "Checkout", WorkingBranch)>>
       IN \/ /\ \E k \in 1..2 :
                   Return("checkoutNewBranch", FailAt(ops, k))
             /\ UNCHANGED <<localBranch, branches, head>>
          \/ /\ Return("checkoutNewBranch", FailAt(ops, 3))
             /\ branches' = branches \cup {WorkingBranch}
             /\ UNCHANGED <<localBranch, head>>
          \/ /\ Goto(StepAfter("checkoutNewBranch"), ops)
             /\ branches' = branches \cup {WorkingBranch}
             /\ head' = WorkingBranch
             /\ localBranch' = WorkingBranch
    /\ UNCHANGED <<tmpDirs, optsV, Dir, requirements, worldV, reqsVersionStream,
                   upgradeVersionSha, bootConfigURL, currentSha, upgradeSha, loopV,
                   identity, commits, owners, headOwners, pr>>

(***************************************************************************)
(* determineBootConfigURL, lines 127-144.  The result "" stands for the    *)
(* error "unable to determine default boot config URL".                    *)
(***************************************************************************)
\* a determineBootConfigURL that looks at the version stream URL first
determineBootConfigURLStreamFirst(gitURL, versionStreamURL) ==
    IF versionStreamURL = DefaultCloudBeesVersionsURL
    THEN DefaultCloudBeesBootRepository
    ELSE IF versionStreamURL = DefaultVersionsURL
    THEN DefaultBootRepository
    ELSE gitURL

determineBootConfigURL(gitURL, versionStreamURL) ==
    IF gitURL = ""
    THEN IF versionStreamURL = DefaultCloudBeesVersionsURL
         THEN DefaultCloudBeesBootRepository
         ELSE IF versionStreamURL = DefaultVersionsURL
         THEN DefaultBootRepository
         ELSE ""
    ELSE gitURL

DetermineBootConfigURL ==
    /\ pc = "determineBootConfigURL"
    /\ LET url == determineBootConfigURL(GitURL, reqsVersionStream.URL)
       IN \/ /\ url = ""
             /\ Return("determineBootConfigURL", <<>>)
             /\ UNCHANGED bootConfigURL
          \/ /\ url # ""
             /\ bootConfigURL' = url
             /\ Goto(StepAfter("determineBootConfigURL"), <<>>)
    /\ UNCHANGED <<tmpDirs, optsV, Dir, requirements, worldV, reqsVersionStream,
                   upgradeVersionSha, localBranch, currentSha, upgradeSha, loopV,
                   identity, repoV, pr>>

(***************************************************************************)
(* updateBootConfig, lines 250-293, step by step.  Every error of these    *)
(* steps is returned to Run by updateBootConfig.                           *)
(***************************************************************************)

\* lines 255-260: os.RemoveAll(configCloneDir), deferred until updateBootConfig
\* returns; the removal is taken to succeed (its error is only logged)
RemoveAll(dirs, dir) == dirs \ {dir}

\* what every step of updateBootConfig past line 254 does to the directories
Deferred ==
    IF pc' \in {"done", StepAfter("updateBootConfig")}
    THEN tmpDirs' = RemoveAll(tmpDirs, ConfigCloneDir)
    ELSE tmpDirs' = tmpDirs

\* cloneBootConfig, lines 311-323, and the return of line 253, which precedes
\* the defer statement.  The error of TempDir is overwritten by the result of
\* MkdirAll (lines 312-313), which is called with the path "" and fails.
CloneBootConfig ==
    /\ pc = "updateBootConfig"
    /\ LET ops == <<Call("cloneBootConfig", "TempDir", ""),
                    Call("cloneBootConfig", "MkdirAll", ConfigCloneDir),
                    Call("cloneBootConfig", "CloneBare", bootConfigURL)>>
       IN \/ /\ Return("updateBootConfig", FailOverwritten(ops, 1))
             /\ tmpDirs' = tmpDirs
          \/ /\ Return("updateBootConfig", FailAt(ops, 2))
             /\ tmpDirs' = tmpDirs \cup {ConfigCloneDir}
          \/ /\ Return("updateBootConfig", FailAt(ops, 3))
             /\ tmpDirs' = tmpDirs \cup {ConfigCloneDir}
          \/ /\ Goto("bootConfigRef", ops)
             /\ tmpDirs' = tmpDirs \cup {ConfigCloneDir}
    /\ UNCHANGED <<optsV, Dir, requirements, worldV, localsV, loopV, identity, repoV, pr>>

\* bootConfigRef, lines 295-309: the version stream at versionStreamRef
\* names a boot config version, looked up as the tag "v<version>"
TagOf(configVersion) == "v" \o configVersion
ConfigTags == {TagOf(v) : v \in Versions}

bootConfigRef(streamVersions, tagCommits, versionStreamRef) ==
    tagCommits[TagOf(streamVersions[versionStreamRef])]

BootConfigRefOps(versionStreamRef) ==
    <<Call("bootConfigRef", "CreateVersionResolver", versionStreamRef),
      Call("bootConfigRef", "ResolveGitVersion", bootConfigURL),
      Call("bootConfigRef", "GetCommitPointedToByTag", "v<configVersion>")>>

\* an updateBootConfig without the check of line 272
ConfigUpgradeAlwaysAvailable(fromSha, toSha) == TRUE

\* line 272: whether a boot config upgrade is available
ConfigUpgradeAvailable(fromSha, toSha) == toSha # fromSha

\* lines 262-275: both references are resolved and compared
BootConfigRefs ==
    /\ pc = "bootConfigRef"
    /\ LET ops == BootConfigRefOps(reqsVersionStream.Ref)
                  \o BootConfigRefOps(upgradeVersionSha)
       IN \/ /\ \E k \in 1..6 : Return("updateBootConfig", FailAt(ops, k))
             /\ UNCHANGED <<currentSha, upgradeSha>>
          \/ \E streamVersions \in [{reqsVersionStream.Ref, upgradeVersionSha} -> Versions],
                tagCommits \in [ConfigTags -> ConfigShas] :
                /\ currentSha' = bootConfigRef(streamVersions, tagCommits,
                                               reqsVersionStream.Ref)
                /\ upgradeSha' = bootConfigRef(streamVersions, tagCommits,
                                               upgradeVersionSha)
                /\ Goto(IF ConfigUpgradeAvailable(currentSha', upgradeSha')
                        THEN "FetchBranch" ELSE StepAfter("updateBootConfig"), ops)
    /\ Deferred
    /\ UNCHANGED <<optsV, Dir, requirements, worldV, reqsVersionStream,
                   upgradeVersionSha, localBranch, bootConfigURL, loopV, identity,
                   repoV, pr>>

\* lines 279-282
FetchBranch ==
    /\ pc = "FetchBranch"
    /\ LET ops == <<Call("updateBootConfig", "FetchBranch", bootConfigURL)>>
       IN \/ Return("updateBootConfig", FailAt(ops, 1))
          \/ Goto("GetCommits", ops)
    /\ Deferred
    /\ UNCHANGED <<optsV, Dir, requirements, worldV, localsV, loopV, identity, repoV, pr>>

(***************************************************************************)
(* cherryPickCommits, lines 325-348.  i is the loop index of line 333,     *)
(* into the 0-based list cmts.                                             *)
(***************************************************************************)
\* line 333: for i := len(cmts) - 1; i >= 0; i--
LoopStart(list) == Len(list) - 1
LoopNext(k) == k - 1
\* a loop that reads the list newest first
CommitAtNewestFirst(list, k) == list[Len(list) - k]

\* line 334: cmts[i].SHA
CommitAt(list, k) == list[k + 1]

\* lines 326-330
GetCommits ==
    /\ pc = "GetCommits"
    /\ LET ops == <<Call("cherryPickCommits", "GetCommits", currentSha)>>
       IN \/ /\ Return("updateBootConfig", FailAt(ops, 1))
             /\ UNCHANGED loopV
          \/ /\ cmts' = history
             /\ i' = LoopStart(history)
             /\ Goto(IF LoopStart(history) >= 0 THEN "CherryPickTheirs"
                     ELSE "excludeFiles", ops)
    /\ Deferred
    /\ UNCHANGED <<optsV, Dir, requirements, worldV, localsV, identity, repoV, pr>>

\* what CherryPickTheirs can return for a commit: no error, git's error for
\* a merge commit picked without a parent, or any other error
NoError == [text |-> "", sha |-> ""]
MergeError(sha) == [text |-> "is a merge but no -m option was given.", sha |-> sha]
ConflictError(sha) == [text |-> "could not apply", sha |-> sha]
CherryPickResults(sha) == {NoError, MergeError(sha), ConflictError(sha)}

\* lines 339-340: strings.Contains(err.Error(), "commit <sha> is a merge but
\* no -m option was given.")
IsMergeWithoutParent(e, commitSha) ==
    e.text = "is a merge but no -m option was given." /\ e.sha = commitSha

\* a loop that swallows every cherry-pick error
KeepsGoingAnyError(e, commitSha) == TRUE

\* lines 338-342: whether the loop goes on after CherryPickTheirs returned e
KeepsGoing(e, commitSha) ==
    e = NoError \/ IsMergeWithoutParent(e, commitSha)

PickCommit(sha) == [kind |-> "cherry-pick", what |-> sha]
FileCommit(message) == [kind |-> "commit", what |-> message]

\* lines 333-346: one iteration of the loop
CherryPick ==
    /\ pc = "CherryPickTheirs"
    /\ i >= 0
    /\ LET commitSha == CommitAt(cmts, i)
       IN \E e \in CherryPickResults(commitSha) :
          LET ops == <<Returning(Call("cherryPickCommits", "CherryPickTheirs",
                                      commitSha), e.text)>>
          IN
            /\ IF e = NoError
               THEN /\ commits' = Append(commits, PickCommit(commitSha))
                    /\ owners' = OwnersAfterPick(commitSha, owners)
                    /\ headOwners' = OwnersAfterPick(commitSha, owners)
               ELSE UNCHANGED <<commits, owners, headOwners>>
            /\ IF KeepsGoing(e, commitSha)
               THEN /\ i' = LoopNext(i)
                    /\ Goto(IF LoopNext(i) >= 0 THEN "CherryPickTheirs"
                            ELSE "excludeFiles", ops)
               ELSE /\ i' = i
                    /\ Return("updateBootConfig", ops)
    /\ Deferred
    /\ UNCHANGED <<optsV, Dir, requirements, worldV, localsV, cmts, identity,
                   branches, head, pr>>

(***************************************************************************)
(* excludeFiles, lines 370-381.                                            *)
(***************************************************************************)
\* what AddCommitFiles can return: git has nothing to commit when the work
\* tree equals HEAD, and commits otherwise; or it fails for another reason
NothingToCommit == "nothing to commit, working tree clean"
CommitFailed == "unable to write new commit"
AddCommitResults(changed) ==
    IF changed THEN {"", CommitFailed} ELSE {NothingToCommit, CommitFailed}

\* an excludeFiles that goes on whatever AddCommitFiles returns
ExcludeNeverFails(e) == FALSE

\* line 377: err != nil && !strings.Contains(err.Error(), "nothing to commit")
ExcludeFails(e) == e # "" /\ e # NothingToCommit

ExcludeFiles ==
    /\ pc = "excludeFiles"
    /\ LET restored == OwnersAt(currentSha)
           ops == <<Call("excludeFiles", "CheckoutCommitFiles", currentSha),
                    Call("excludeFiles", "AddCommitFiles",
                         "chore: exclude files from upgrade")>>
       IN \/ /\ Return("updateBootConfig", FailAt(ops, 1))
             /\ UNCHANGED <<commits, owners, headOwners>>
          \/ \E e \in AddCommitResults(restored # headOwners) :
                /\ owners' = restored
                /\ IF e = ""
                   THEN /\ commits' = Append(commits,
                                FileCommit("chore: exclude files from upgrade"))
                        /\ headOwners' = restored
                   ELSE UNCHANGED <<commits, headOwners>>
                /\ IF ExcludeFails(e)
                   THEN Return("updateBootConfig",
                               <<ops[1], Returning(ops[2], e)>>)
                   ELSE Goto(StepAfter("updateBootConfig"),
                             <<ops[1], Returning(ops[2], e)>>)
    /\ Deferred
    /\ UNCHANGED <<optsV, Dir, requirements, worldV, localsV, loopV, identity,
                   branches, head, pr>>

(***************************************************************************)
(* updateVersionStreamRef, lines 229-248.                                  *)
(***************************************************************************)
\* an updateVersionStreamRef that never finds the reference changed
RefNeverDiffers(storedRef, upgradeRef) == FALSE

\* line 235
RefDiffers(storedRef, upgradeRef) == storedRef # upgradeRef

\* an update that also writes the default URL next to the reference
WithRefAndDefaultURL(stored, upgradeRef) ==
    [stored EXCEPT !.VersionStream = [URL |-> DefaultVersionsURL, Ref |-> upgradeRef]]

\* line 237: the stored configuration with the pinned reference advanced
WithRef(stored, upgradeRef) ==
    [stored EXCEPT !.VersionStream.Ref = upgradeRef]

UpdateVersionStreamRef ==
    /\ pc = "updateVersionStreamRef"
    /\ LET msg == "updateVersionStreamRef"
           loads == LoadOps("updateVersionStreamRef")
           writes == <<Call("updateVersionStreamRef", "SaveConfig", upgradeVersionSha),
                       Call("updateVersionStreamRef", "AddCommitFiles",
                            "feat: upgrade version stream")>>
       IN \/ /\ \E k \in 1..2 : Return(msg, FailAt(loads, k))
             /\ UNCHANGED <<requirements, commits>>
          \/ /\ ~requirements.exists
             /\ Return(msg, loads)
             /\ UNCHANGED <<requirements, commits>>
          \/ /\ requirements.exists
             /\ ~RefDiffers(requirements.VersionStream.Ref, upgradeVersionSha)
             /\ Goto(StepAfter("updateVersionStreamRef"), loads)
             /\ UNCHANGED <<requirements, commits>>
          \/ /\ requirements.exists
             /\ RefDiffers(requirements.VersionStream.Ref, upgradeVersionSha)
             /\ \/ /\ Return(msg, loads \o FailAt(writes, 1))
                   /\ UNCHANGED <<requirements, commits>>
                \/ /\ Return(msg, loads \o FailAt(writes, 2))
                   /\ requirements' = WithRef(requirements, upgradeVersionSha)
                   /\ UNCHANGED commits
                \/ /\ Goto(StepAfter("updateVersionStreamRef"), loads \o writes)
                   /\ requirements' = WithRef(requirements, upgradeVersionSha)
                   /\ commits' = Append(commits,
                                        FileCommit("feat: upgrade version stream"))
    /\ UNCHANGED <<tmpDirs, optsV, Dir, worldV, localsV, loopV, identity, branches, head,
                   owners, headOwners, pr>>

(***************************************************************************)
(* raisePR, lines 383-415.                                                 *)
(***************************************************************************)
\* lines 399-403 and the base of line 410, with the commits pushed
PullRequest(pushed) ==
    [BranchName |-> "jx_boot_upgrade",
     Title |-> "feat(config): upgrade configuration",
     Base |-> Master,
     commits |-> pushed]

RaisePR ==
    /\ pc = "raisePR"
    /\ LET ops == <<Call("raisePR", "Info", Dir),
                    Call("raisePR", "gitProvider", ""),
                    Call("raisePR", "GetRepository", ""),
                    Call("raisePR", "PushRepoAndCreatePullRequest",
                         "jx_boot_upgrade")>>
       IN \/ /\ \E k \in 1..4 : Return("raisePR", FailAt(ops, k))
             /\ UNCHANGED pr
          \/ /\ pr' = PullRequest(commits)
             /\ Goto(StepAfter("raisePR"), ops)
    /\ UNCHANGED <<tmpDirs, optsV, Dir, requirements, worldV, localsV, loopV, identity, repoV>>

(***************************************************************************)
(* deleteLocalBranch, lines 417-427, in its two steps.                     *)
(***************************************************************************)
\* lines 418-421: what is checked out before the branch is deleted
CleanupBranch == Master

\* a deleteLocalBranch that ignores the error of the checkout
CheckoutMasterIgnoringError ==
    /\ pc = "deleteLocalBranch"
    /\ LET ops == <<Call("deleteLocalBranch", "Checkout", CleanupBranch)>>
       IN \/ /\ Goto("DeleteLocalBranch", FailAt(ops, 1))
             /\ UNCHANGED head
          \/ /\ head' = CleanupBranch
             /\ Goto("DeleteLocalBranch", ops)
    /\ UNCHANGED <<tmpDirs, optsV, Dir, requirements, worldV, localsV, loopV, identity,
                   branches, commits, owners, headOwners, pr>>

CheckoutMaster ==
    /\ pc = "deleteLocalBranch"
    /\ LET ops == <<Call("deleteLocalBranch", "Checkout", CleanupBranch)>>
       IN \/ /\ Return("deleteLocalBranch", FailAt(ops, 1))
             /\ UNCHANGED head
          \/ /\ head' = CleanupBranch
             /\ Goto("DeleteLocalBranch", ops)
    /\ UNCHANGED <<tmpDirs, optsV, Dir, requirements, worldV, localsV, loopV, identity,
                   branches, commits, owners, headOwners, pr>>

\* lines 422-426
DeleteLocalBranch ==
    /\ pc = "DeleteLocalBranch"
    /\ LET ops == <<Call("deleteLocalBranch", "DeleteLocalBranch", localBranch)>>
       IN \/ /\ Return("deleteLocalBranch", FailAt(ops, 1))
             /\ UNCHANGED branches
          \/ /\ branches' = branches \ {localBranch}
             /\ Goto(StepAfter("deleteLocalBranch"), ops)
    /\ UNCHANGED <<tmpDirs, optsV, Dir, requirements, worldV, localsV, loopV, identity,
                   head, commits, owners, headOwners, pr>>

(***************************************************************************)
(* The command is invoked again, without version stream flags, on the      *)
(* repository a first run left: that run returned without error after it   *)
(* had advanced the reference of a requirements file that holds a URL, its *)
(* pull request is merged, and the candidate resolves to the same commit.  *)
(* Run starts over at line 70 with fresh locals.                           *)
(***************************************************************************)
SecondRun ==
    /\ run = 1
    /\ pc = "done" /\ err = ""
    /\ requirements.VersionStream.Ref # preRequirements.VersionStream.Ref
    /\ requirements.VersionStream.URL # ""
    /\ run' = 2
    /\ VersionStreamURL' = ""
    /\ VersionStreamRef' = ""
    /\ preRequirements' = requirements
    /\ preOwners' = headOwners
    /\ owners' = headOwners
    /\ reqsVersionStream' = NoStream
    /\ upgradeVersionSha' = ""
    /\ localBranch' = ""
    /\ bootConfigURL' = ""
    /\ currentSha' = ""
    /\ upgradeSha' = ""
    /\ cmts' = <<>>
    /\ i' = 0
    /\ commits' = <<>>
    /\ pr' = NoPR
    /\ pc' = "setupGitConfig"
    /\ err' = ""
    /\ calls' = <<>>
    /\ UNCHANGED <<GitURL, Dir, requirements, masterSha, history, identity,
                   branches, head, headOwners, tmpDirs>>

(***************************************************************************)
(* Run, lines 69-125: the steps in the order Run names them.               *)
(***************************************************************************)
Next ==
    \/ SetupGitConfig
    \/ CloneDevEnv
    \/ DetermineVersionStreamConfig
    \/ UpgradeAvailable
    \/ CheckoutNewBranch
    \/ DetermineBootConfigURL
    \/ CloneBootConfig
    \/ BootConfigRefs
    \/ FetchBranch
    \/ GetCommits
    \/ CherryPick
    \/ ExcludeFiles
    \/ UpdateVersionStreamRef
    \/ RaisePR
    \/ CheckoutMaster
    \/ DeleteLocalBranch
    \/ SecondRun

Spec == Init /\ [][Next]_vars

(***************************************************************************)
(* Observations on a run, read off the state and the call log.             *)
(***************************************************************************)
Done == pc = "done"
Succeeded == Done /\ err = ""

CallsOf(op) == {k \in 1..Len(calls) : calls[k].op = op}
Made(op) == CallsOf(op) # {}
MadeBy(by) == \E k \in 1..Len(calls) : calls[k].by = by

IsPick(c) == c.op = "CherryPickTheirs"
PickCalls == SelectSeq(calls, IsPick)
\* the commits cherry-picking was attempted for, in the order of the attempts
Picks == [k \in 1..Len(PickCalls) |-> PickCalls[k].arg]
Reverse(s) == [k \in 1..Len(s) |-> s[Len(s) + 1 - k]]
\* the delta, oldest first
OldestFirst == Reverse(history)

\* the step of Run a call belongs to
StepOfCall(c) ==
    IF c.by \in {"cloneBootConfig", "bootConfigRef", "cherryPickCommits", "excludeFiles"}
    THEN "updateBootConfig"
    ELSE c.by

\* an error no caller swallows
Fatal(c) ==
    /\ c.ret # ""
    /\ ~(c.op = "CherryPickTheirs" /\ c.ret = MergeError(c.arg).text)
    /\ ~(c.by = "excludeFiles" /\ c.ret = NothingToCommit)

\* the failure of call k ended the run: the step it belongs to returned its
\* error to Run, which returned it wrapped; what was still called after call
\* k was called by the same function, on the result of call k, and failed
EndsRunAt(k) ==
    /\ Done
    /\ err = Wrapped(StepOfCall(calls[k]))
    /\ \A j \in (k + 1)..Len(calls) :
            calls[j].by = calls[k].by /\ calls[j].ret # ""

\* upgradeAvailable resolved the candidate
AvailabilityChecked ==
    \E k \in 1..Len(calls) :
        /\ calls[k].by = "upgradeAvailable"
        /\ calls[k].op = "GetCommitPointedToByTag"
        /\ calls[k].ret = ""

\* cherryPickCommits returned without error
ReplayReturned == pc = "excludeFiles" \/ MadeBy("excludeFiles")

\* excludeFiles returned without error
GuardReturned ==
    \E k \in 1..Len(calls) :
        /\ calls[k].by = "excludeFiles"
        /\ calls[k].op = "AddCommitFiles"
        /\ ~ExcludeFails(calls[k].ret)

\* updateVersionStreamRef returned without error
PinnedRefReturned ==
    MadeBy("updateVersionStreamRef") /\ err # Wrapped("updateVersionStreamRef")

\* both boot config references resolved, to the same commit
SameConfig == currentSha # "" /\ currentSha = upgradeSha

VersionStreamCommit == FileCommit("feat: upgrade version stream")

(***************************************************************************)
(* C1: after replay and guard both completed, OWNERS on the working        *)
(* branch has the content it had in the GitOps repository before the run,  *)
(* whatever was replayed and whatever that content was.                    *)
(***************************************************************************)
C1_ProtectedPathKeepsPreUpgradeContent ==
    GuardReturned => owners = preOwners /\ headOwners = preOwners

(***************************************************************************)
(* C2: when the pinned reference and the candidate symbol resolve to the   *)
(* same commit, upgradeAvailable reports no upgrade and Run ends without   *)
(* error, also when the pinned reference is a symbol and not the commit.   *)
(***************************************************************************)
C2_SameCommitMeansNoUpgrade ==
    (AvailabilityChecked /\ ResolveRef(reqsVersionStream.Ref) = ResolveRef(UpgradeRef))
        => upgradeVersionSha = "" /\ Succeeded

(***************************************************************************)
(* C3: the cherry-pick attempts are, in order, the commits GetCommits      *)
(* returned read from the last to the first (oldest first): at every       *)
(* moment a prefix of that list, each commit at most once, and the whole   *)
(* list once replay has returned.                                          *)
(***************************************************************************)
C3_ReplayOldestFirst ==
    /\ Len(Picks) <= Len(OldestFirst)
    /\ \A k \in 1..Len(Picks) : Picks[k] = OldestFirst[k]
    /\ Distinct(Picks)
    /\ ReplayReturned => Picks = OldestFirst

C3_Witness ==
    /\ ReplayReturned
    /\ Len(Picks) >= 3
    /\ history[1] = "c1"

(***************************************************************************)
(* C4: a cherry-pick that fails with git's merge-commit error is skipped   *)
(* (no commit is made for it, no error is returned) and the next commit    *)
(* of the delta is attempted; a cherry-pick that fails in any other way    *)
(* is the last call of the run, which returns an error.                    *)
(***************************************************************************)
C4_MergeSkippedOtherFailureAborts ==
    \A k \in CallsOf("CherryPickTheirs") :
        LET sha == calls[k].arg
            n == CHOOSE m \in 1..Len(OldestFirst) : OldestFirst[m] = sha
            isLast == n = Len(OldestFirst)
        IN /\ calls[k].ret = "" => PickCommit(sha) \in Range(commits)
           /\ calls[k].ret = MergeError(sha).text =>
                /\ PickCommit(sha) \notin Range(commits)
                /\ IF k = Len(calls)
                   THEN /\ err = ""
                        /\ pc = IF isLast THEN "excludeFiles" ELSE "CherryPickTheirs"
                   ELSE IF isLast
                        THEN calls[k + 1].by = "excludeFiles"
                        ELSE /\ calls[k + 1].op = "CherryPickTheirs"
                             /\ calls[k + 1].arg = OldestFirst[n + 1]
           /\ calls[k].ret = ConflictError(sha).text =>
                /\ PickCommit(sha) \notin Range(commits)
                /\ k = Len(calls)
                /\ Done
                /\ err = Wrapped("updateBootConfig")

C4_Witness ==
    \E k \in CallsOf("CherryPickTheirs") :
        /\ calls[k].ret = MergeError(calls[k].arg).text
        /\ k + 2 = Len(calls)
        /\ calls[k + 1].op = "CherryPickTheirs" /\ calls[k + 1].ret = ""
        /\ calls[k + 2].op = "CherryPickTheirs"
        /\ calls[k + 2].ret = ConflictError(calls[k + 2].arg).text

(***************************************************************************)
(* C5: when both boot config references resolve to the same commit,        *)
(* updateBootConfig returns without error and without fetching,            *)
(* listing or cherry-picking commits and without restoring OWNERS.         *)
(***************************************************************************)
C5_SameConfigNoReplay ==
    SameConfig =>
        /\ ~Made("FetchBranch")
        /\ ~Made("GetCommits")
        /\ ~Made("CherryPickTheirs")
        /\ ~MadeBy("excludeFiles")
        /\ owners = preOwners
        /\ pc \notin {"bootConfigRef", "FetchBranch", "GetCommits", "CherryPickTheirs",
                      "excludeFiles"}
        /\ err # Wrapped("updateBootConfig")

C5_Witness ==
    /\ SameConfig
    /\ currentSha = "C1"
    /\ pc = "updateVersionStreamRef"

(***************************************************************************)
(* C6: when the pinned reference is the commit the candidate resolves to,  *)
(* Run ends without error and has created and checked out no branch, made  *)
(* no commit, not written the requirements file, attempted no cherry-pick  *)
(* and raised no pull request.                                             *)
(***************************************************************************)
C6_NoUpgradeNoSideEffects ==
    (AvailabilityChecked /\ reqsVersionStream.Ref = ResolveRef(UpgradeRef)) =>
        /\ Succeeded
        /\ branches = {Master} /\ head = Master /\ localBranch = ""
        /\ commits = <<>>
        /\ requirements = preRequirements
        /\ owners = preOwners
        /\ pr = NoPR
        /\ \A k \in 1..Len(calls) :
                calls[k].op \notin {"CreateBranch", "Checkout", "SaveConfig",
                                    "AddCommitFiles", "CherryPickTheirs",
                                    "PushRepoAndCreatePullRequest"}

C6_Witness ==
    /\ AvailabilityChecked
    /\ reqsVersionStream.Ref = ResolveRef(UpgradeRef)
    /\ Done

(***************************************************************************)
(* C7: when the reference pinned in the requirements file is the one the   *)
(* run starts from and both boot config references resolve to one commit,  *)
(* nothing is cherry-picked; once updateVersionStreamRef has returned the  *)
(* file pins the candidate commit and the only commit made is the one of   *)
(* the requirements file; the pull request raised carries that commit;     *)
(* and a run that ends without error has raised it.                        *)
(***************************************************************************)
C7_StreamOnlyUpgrade ==
    (/\ SameConfig
     /\ preRequirements.exists
     /\ preRequirements.VersionStream.Ref = reqsVersionStream.Ref) =>
        /\ ~Made("CherryPickTheirs")
        /\ PinnedRefReturned =>
            /\ requirements.VersionStream.Ref = upgradeVersionSha
            /\ requirements.VersionStream.Ref # preRequirements.VersionStream.Ref
            /\ commits = <<VersionStreamCommit>>
        /\ ~PinnedRefReturned => pr = NoPR
        /\ pr # NoPR => pr.commits = <<VersionStreamCommit>>
        /\ Succeeded => pr # NoPR

C7_Witness ==
    /\ SameConfig
    /\ preRequirements.exists
    /\ preRequirements.VersionStream.Ref = "s0"
    /\ reqsVersionStream.Ref = "s0"
    /\ requirements.VersionStream.Ref = "s1"
    /\ pr.commits = <<VersionStreamCommit>>
    /\ Succeeded

(***************************************************************************)
(* C8: a full upgrade that ends without error made its calls in the order  *)
(* availability check, branch creation, delta computation, replay of the   *)
(* whole delta, guard, pinned-reference update, pull request, branch       *)
(* deletion, each as one block; in every run the pull request is raised    *)
(* only after the pinned-reference update and the branch is deleted only   *)
(* after the pull request was raised.                                      *)
(***************************************************************************)
Phase(c) ==
    CASE c.by = "upgradeAvailable" -> "availability"
      [] c.by = "checkoutNewBranch" -> "branch"
      [] c.by \in {"cloneBootConfig", "bootConfigRef", "updateBootConfig"} -> "delta"
      [] c.op = "GetCommits" -> "delta"
      [] c.op = "CherryPickTheirs" -> "replay"
      [] c.by = "excludeFiles" -> "guard"
      [] c.by = "updateVersionStreamRef" -> "pinned"
      [] c.by = "raisePR" -> "pr"
      [] c.by = "deleteLocalBranch" -> "cleanup"
      [] OTHER -> "setup"

RECURSIVE Collapse(_)
Collapse(s) ==
    IF Len(s) <= 1 THEN s
    ELSE LET rest == Collapse(Tail(s))
         IN IF s[1] = rest[1] THEN rest ELSE <<s[1]>> \o rest

FullUpgrade == Succeeded /\ upgradeVersionSha # "" /\ currentSha # upgradeSha

C8_StepOrder ==
    /\ FullUpgrade =>
        /\ Collapse([k \in 1..Len(calls) |-> Phase(calls[k])]) =
                <<"setup", "availability", "branch", "delta">>
                \o (IF history = <<>> THEN <<>> ELSE <<"replay">>)
                \o <<"guard", "pinned", "pr", "cleanup">>
        /\ Picks = OldestFirst
        /\ \A op \in {"CreateBranch", "GetCommits", "CheckoutCommitFiles",
                      "PushRepoAndCreatePullRequest", "DeleteLocalBranch"} :
                Cardinality(CallsOf(op)) = 1
        /\ pr.Title = "feat(config): upgrade configuration"
    /\ \A k \in CallsOf("PushRepoAndCreatePullRequest") :
            /\ \E j \in 1..(k - 1) : calls[j].by = "updateVersionStreamRef"
            /\ \A j \in 1..(k - 1) : calls[j].by = "updateVersionStreamRef"
                                        => calls[j].ret = ""
            /\ \A j \in (k + 1)..Len(calls) : calls[j].by # "updateVersionStreamRef"
    /\ \A k \in CallsOf("DeleteLocalBranch") :
            \E j \in 1..(k - 1) :
                calls[j].op = "PushRepoAndCreatePullRequest" /\ calls[j].ret = ""

C8_Witness ==
    /\ FullUpgrade
    /\ Len(history) = 2
    /\ Len(commits) = 4
    /\ branches = {Master}

(***************************************************************************)
(* C9: a failure between the creation of the working branch and the        *)
(* raising of the pull request ends the run at once with the error of the  *)
(* failing step, and the working branch is left as it is: never deleted,   *)
(* still checked out, with the commits picked so far.                      *)
(***************************************************************************)
GuardedSteps ==
    {"determineBootConfigURL", "updateBootConfig", "updateVersionStreamRef", "raisePR"}

FailedAfterBranch == Done /\ \E step \in GuardedSteps : err = Wrapped(step)

C9_FailureLeavesBranch ==
    /\ \A k \in 1..Len(calls) :
            (Fatal(calls[k]) /\ StepOfCall(calls[k]) \in GuardedSteps) =>
                EndsRunAt(k)
    /\ (localBranch # "" /\ pc # "determineBootConfigURL"
            /\ determineBootConfigURL(GitURL, reqsVersionStream.URL) = "") =>
                Done /\ err = Wrapped("determineBootConfigURL")
    /\ FailedAfterBranch =>
        /\ ~MadeBy("deleteLocalBranch")
        /\ head = WorkingBranch
        /\ localBranch = WorkingBranch
        /\ WorkingBranch \in branches
        /\ pr = NoPR
        /\ \A k \in CallsOf("CherryPickTheirs") :
                calls[k].ret = "" => PickCommit(calls[k].arg) \in Range(commits)
        /\ LET failed == CHOOSE step \in GuardedSteps : err = Wrapped(step)
           IN \A k \in 1..Len(calls) :
                StepIndex(StepOfCall(calls[k])) <= StepIndex(failed)

C9_Witness ==
    /\ FailedAfterBranch
    /\ err = Wrapped("updateBootConfig")
    /\ Len(commits) = 2
    /\ calls[Len(calls)].op = "CherryPickTheirs"

(***************************************************************************)
(* C10: DeleteLocalBranch is invoked only right after a checkout of master *)
(* that succeeded, with master checked out; a failed checkout of master    *)
(* ends the run with an error and the branch is not deleted; the branch    *)
(* that is checked out always exists.                                      *)
(***************************************************************************)
C10_CheckoutBeforeDelete ==
    /\ pc = "DeleteLocalBranch" => head = Master
    /\ head \in branches
    /\ \A k \in CallsOf("DeleteLocalBranch") :
            /\ k > 1
            /\ calls[k - 1] = Call("deleteLocalBranch", "Checkout", Master)
            /\ head = Master
    /\ \A k \in 1..Len(calls) :
            (calls[k].by = "deleteLocalBranch" /\ calls[k].op = "Checkout"
                /\ calls[k].ret # "") =>
                    /\ k = Len(calls)
                    /\ Done
                    /\ err = Wrapped("deleteLocalBranch")
                    /\ WorkingBranch \in branches

C10_Witness ==
    /\ Succeeded
    /\ Made("DeleteLocalBranch")
    /\ WorkingBranch \notin branches
    /\ head = Master

(***************************************************************************)
(* More observations: the commits excludeFiles made and what the replay    *)
(* did to OWNERS.                                                          *)
(***************************************************************************)
GuardCommit == FileCommit("chore: exclude files from upgrade")
Count(s, x) == Cardinality({k \in 1..Len(s) : s[k] = x})

\* OWNERS after the cherry-picks among made, starting from content
RECURSIVE OwnersAfterReplay(_, _)
OwnersAfterReplay(made, content) ==
    IF made = <<>> THEN content
    ELSE OwnersAfterReplay(Tail(made),
            IF made[1].kind = "cherry-pick"
            THEN OwnersAfterPick(made[1].what, content)
            ELSE content)

(***************************************************************************)
(* C11: once excludeFiles has returned without error it has made no        *)
(* commit when the replay left the content of OWNERS as it was before the  *)
(* run, and exactly one commit when the replay changed it.                 *)
(***************************************************************************)
C11_GuardCommitsIffReplayChangedContent ==
    GuardReturned =>
        Count(commits, GuardCommit) =
            IF OwnersAfterReplay(commits, preOwners) = preOwners THEN 0 ELSE 1

(***************************************************************************)
(* C12: once upgradeAvailable has returned, with or without error, the     *)
(* clone of the version stream it made is gone, and once updateBootConfig  *)
(* has returned, with or without error, the bare clone of the boot config  *)
(* is gone.                                                                *)
(***************************************************************************)
InUpgradeAvailable == pc = "upgradeAvailable"
InUpdateBootConfig ==
    pc \in {"updateBootConfig", "bootConfigRef", "FetchBranch", "GetCommits",
            "CherryPickTheirs", "excludeFiles"}

C12_TempDirsRemovedOnReturn ==
    /\ ~InUpgradeAvailable => VersionsDir \notin tmpDirs
    /\ ~InUpdateBootConfig => ConfigCloneDir \notin tmpDirs

(***************************************************************************)
(* C13: the pair determineVersionStreamConfig returns has a URL and a      *)
(* reference, both non-empty: it is the pair of the flags when both are    *)
(* given, the pair of the requirements file when none is given and that    *)
(* pair is complete, and in every other case (one flag only, or a stored   *)
(* pair that lacks its URL or its reference) one of the two default pairs, *)
(* whole.                                                                  *)
(***************************************************************************)
Complete(vs) == vs.URL # "" /\ vs.Ref # ""
Flags == [URL |-> VersionStreamURL, Ref |-> VersionStreamRef]
Defaults == {defaultVersionStreamConfig(profile) : profile \in {"", CloudBeesProfile}}
\* determineVersionStreamConfig returned without error
StreamDetermined == reqsVersionStream # NoStream

C13_StreamConfigCompleteOrDefault ==
    StreamDetermined =>
        /\ Complete(reqsVersionStream)
        /\ Complete(Flags) => reqsVersionStream = Flags
        /\ (Flags = NoStream /\ Complete(preRequirements.VersionStream)) =>
                reqsVersionStream = preRequirements.VersionStream
        /\ (Flags = NoStream /\ ~Complete(preRequirements.VersionStream)) =>
                reqsVersionStream \in Defaults
        /\ (Flags # NoStream /\ ~Complete(Flags)) => reqsVersionStream \in Defaults
        /\ \A d \in Defaults : Complete(d)

C13_Witness ==
    /\ StreamDetermined
    /\ VersionStreamURL = OtherVersionsURL
    /\ VersionStreamRef = ""
    /\ reqsVersionStream = defaultVersionStreamConfig(CloudBeesProfile)
    /\ preRequirements.exists
    /\ Complete(preRequirements.VersionStream)

(***************************************************************************)
(* C14: determineBootConfigURL returns the GitURL flag whenever it is      *)
(* given, whatever the version stream URL; without the flag it returns     *)
(* the default boot repository for the default version stream URL and the  *)
(* CloudBees boot repository for the CloudBees version stream URL; for     *)
(* any other version stream URL it fails, and never returns an empty URL.  *)
(***************************************************************************)
\* determineBootConfigURL has run
BootConfigURLDetermined ==
    /\ localBranch # ""
    /\ pc # "determineBootConfigURL"
BootConfigURLFailed == Done /\ err = Wrapped("determineBootConfigURL")

C14_BootConfigURL ==
    BootConfigURLDetermined =>
        /\ BootConfigURLFailed <=> bootConfigURL = ""
        /\ GitURL # "" => bootConfigURL = GitURL
        /\ (GitURL = "" /\ reqsVersionStream.URL = DefaultVersionsURL) =>
                bootConfigURL = DefaultBootRepository
        /\ (GitURL = "" /\ reqsVersionStream.URL = DefaultCloudBeesVersionsURL) =>
                bootConfigURL = DefaultCloudBeesBootRepository
        /\ (GitURL = "" /\ reqsVersionStream.URL \notin
                {DefaultVersionsURL, DefaultCloudBeesVersionsURL}) =>
                    /\ BootConfigURLFailed
                    /\ ~MadeBy("cloneBootConfig")

C14_Witness ==
    /\ BootConfigURLDetermined
    /\ GitURL = ""
    /\ reqsVersionStream.URL = DefaultCloudBeesVersionsURL
    /\ bootConfigURL = DefaultCloudBeesBootRepository
    /\ pc = "bootConfigRef"

(***************************************************************************)
(* What determineVersionStreamConfig returns when it is called without     *)
(* flags on the requirements file as it is now.                            *)
(***************************************************************************)
FollowingConfig(profile) ==
    determineVersionStreamConfig("", "", requirements.VersionStream, profile)

\* what updateVersionStreamRef did when it returned without error: nothing
\* when the file already held the reference, one save and one commit otherwise
SavedOnceIfDiffers ==
    IF preRequirements.VersionStream.Ref = upgradeVersionSha
    THEN /\ ~Made("SaveConfig")
         /\ Count(commits, VersionStreamCommit) = 0
         /\ requirements = preRequirements
    ELSE /\ Cardinality(CallsOf("SaveConfig")) = 1
         /\ Count(commits, VersionStreamCommit) = 1

(***************************************************************************)
(* C15: once updateVersionStreamRef(r) has returned without error the     *)
(* requirements file holds the reference r and a following                 *)
(* determineVersionStreamConfig without flags returns the reference r;     *)
(* nothing is saved or committed when the file already held r, and one     *)
(* save and one commit are made otherwise.                                 *)
(***************************************************************************)
C15_FollowingConfigReturnsRef ==
    PinnedRefReturned =>
        /\ requirements.VersionStream.Ref = upgradeVersionSha
        /\ \A profile \in {"", CloudBeesProfile} :
                FollowingConfig(profile).Ref = upgradeVersionSha
        /\ SavedOnceIfDiffers

(***************************************************************************)
(* C16: a collaborator call that returned an error ended the run, Run      *)
(* returning the error of the step the call belongs to and no later step   *)
(* making any call, unless the call is a cherry-pick that failed with      *)
(* git's merge-commit error.  git's "nothing to commit" answer to the      *)
(* commit of OWNERS is an outcome of that commit and not a failure.        *)
(***************************************************************************)
MergeFailure(c) == c.op = "CherryPickTheirs" /\ c.ret = MergeError(c.arg).text
NothingCommitted(c) ==
    c.by = "excludeFiles" /\ c.op = "AddCommitFiles" /\ c.ret = NothingToCommit
\* call k returned an error and the run went on
RecoveredInPlace(k) == calls[k].ret # "" /\ ~EndsRunAt(k)

SucceededCall(by, op, arg) ==
    \E k \in 1..Len(calls) : calls[k] = Call(by, op, arg)

C17_NoWorkingBranchAfterSuccess ==
    Succeeded =>
        /\ WorkingBranch \notin branches
        /\ branches = {Master}
        /\ head = Master
        /\ IF upgradeVersionSha = ""
           THEN /\ ~Made("CreateBranch")
                /\ localBranch = ""
           ELSE /\ localBranch = WorkingBranch
                /\ SucceededCall("checkoutNewBranch", "CreateBranch", WorkingBranch)
                /\ calls[Len(calls) - 1] =
                        Call("deleteLocalBranch", "Checkout", Master)
                /\ calls[Len(calls)] =
                        Call("deleteLocalBranch", "DeleteLocalBranch", WorkingBranch)

C17_Witness ==
    /\ Succeeded
    /\ SucceededCall("checkoutNewBranch", "CreateBranch", WorkingBranch)
    /\ WorkingBranch \notin branches
    /\ SameConfig
    /\ pr # NoPR

(***************************************************************************)
(* C18: the requirements file differs from what it was before the run in   *)
(* nothing but the reference of its version stream, which is then the      *)
(* candidate commit; and it differs only once updateVersionStreamRef has   *)
(* reached its save: while no SaveConfig has succeeded the file is what    *)
(* it was.                                                                 *)
(***************************************************************************)
Saved == \E k \in CallsOf("SaveConfig") : calls[k].ret = ""

C18_OnlyRefChanges ==
    /\ requirements.exists = preRequirements.exists
    /\ requirements.Cluster = preRequirements.Cluster
    /\ requirements.VersionStream.URL = preRequirements.VersionStream.URL
    /\ requirements = [preRequirements EXCEPT
                            !.VersionStream.Ref = requirements.VersionStream.Ref]
    /\ requirements # preRequirements =>
            /\ Saved
            /\ requirements.VersionStream.Ref = upgradeVersionSha
    /\ ~Saved => requirements = preRequirements

C18_Witness ==
    /\ PinnedRefReturned
    /\ preRequirements.VersionStream =
            [URL |-> DefaultCloudBeesVersionsURL, Ref |-> "s0"]
    /\ requirements.VersionStream =
            [URL |-> DefaultCloudBeesVersionsURL, Ref |-> "s1"]
    /\ requirements.Cluster = "project"

(***************************************************************************)
(* C19: when Run reaches raisePR the run has made at least one commit on   *)
(* the working branch: a cherry-pick, the restoration of OWNERS or the     *)
(* commit of the requirements file.                                        *)
(***************************************************************************)
ReachedRaisePR == pc = "raisePR" \/ MadeBy("raisePR")

C19_PullRequestOnlyWithCommit ==
    ReachedRaisePR => commits # <<>>

(***************************************************************************)
(* C20: once the run has advanced the reference stored in the              *)
(* requirements file, the file holds a URL, and that URL is the one of     *)
(* the version stream repository in which the candidate was resolved:      *)
(* the stored one, the one of the flag or the default one, whichever the   *)
(* run used.                                                               *)
(***************************************************************************)
Advanced ==
    /\ Saved
    /\ requirements.VersionStream.Ref # preRequirements.VersionStream.Ref

C20_StoredPairCompleteAndConsistent ==
    Advanced =>
        /\ requirements.VersionStream.Ref = upgradeVersionSha
        /\ requirements.VersionStream.URL # ""
        /\ requirements.VersionStream.URL = reqsVersionStream.URL

(***************************************************************************)
(* C21: a second run without flag overrides, on the requirements file a    *)
(* first run advanced to the candidate commit (the file holds a URL and    *)
(* the reference) and with the candidate still resolving to that commit,   *)
(* follows the stored pair, finds no upgrade and returns without error     *)
(* once its availability check has returned: it never goes past the        *)
(* check, creates no branch, makes no commit, raises no pull request and   *)
(* leaves the requirements file as it found it.                            *)
(***************************************************************************)
SecondRunStarted ==
    /\ run = 2
    /\ Complete(requirements.VersionStream)
    /\ requirements.VersionStream.Ref = ResolveRef(UpgradeRef)

C21_SecondRunEndsAtNoUpgrade ==
    SecondRunStarted =>
        /\ pc \in {"setupGitConfig", "determineVersionStreamConfig",
                   "upgradeAvailable", "done"}
        /\ AvailabilityChecked =>
                /\ Succeeded
                /\ reqsVersionStream = requirements.VersionStream
                /\ upgradeVersionSha = ""
        /\ branches = {Master} /\ head = Master /\ localBranch = ""
        /\ commits = <<>>
        /\ pr = NoPR
        /\ requirements = preRequirements
        /\ \A k \in 1..Len(calls) :
                calls[k].op \notin {"CreateBranch", "SaveConfig",
                                    "AddCommitFiles", "CherryPickTheirs",
                                    "PushRepoAndCreatePullRequest"}

C21_Witness ==
    /\ SecondRunStarted
    /\ AvailabilityChecked
    /\ Succeeded
    /\ requirements.VersionStream.Ref = "s1"

====
